---- MODULE Spec2Model ----
(***************************************************************************)
(* Model of the fetch-cache-classify pipeline of the movie genre           *)
(* classifier: MovieAPIHandler (api_handler.py), MovieGenreClassifier      *)
(* (movie_classifier.py) and the constants of config.py.                   *)
(*                                                                         *)
(* Representation of Python values:                                        *)
(*  - a dict is a function from string keys to values ({} is the function  *)
(*    with the empty domain);                                              *)
(*  - titles and year strings are sequences of one-character strings, so   *)
(*    that lower(), strip(), replace() and split() act on characters;      *)
(*  - a genre string is a sequence of tokens, the separator ", " being one *)
(*    token (GenreSep), so that split(', ') and ', '.join act on it;       *)
(*  - a value that the code may hold as None is boxed: None is             *)
(*    [pytype |-> "NoneType"], the string s is Str(s);                     *)
(*  - a JSON value that is not a dict carries a "pytype" field.            *)
(***************************************************************************)
EXTENDS Integers, Sequences, FiniteSets, TLC

VARIABLES omdb_api_key, cache, movie_titles, pos, pc,
          processed_movies, classified_movies, returned, fetched

vars == <<omdb_api_key, cache, movie_titles, pos, pc,
          processed_movies, classified_movies, returned, fetched>>

(***************************************************************************)
(* Bounds                                                                  *)
(***************************************************************************)
\* longest title list handed to classify_movies
MaxTitles == 2

(***************************************************************************)
(* Python values                                                           *)
(***************************************************************************)
None == [pytype |-> "NoneType"]

Str(s) == [pytype |-> "str", s |-> s]

PyList(items) == [pytype |-> "list", items |-> items]

EmptyDict == [k \in {} |-> None]

IsDict(v) == "pytype" \notin DOMAIN v

\* Python truthiness of the values the handler tests with `if x` / `x and ..`
Truthy(v) ==
    IF IsDict(v) THEN DOMAIN v # {}
    ELSE CASE v.pytype = "NoneType" -> FALSE
           [] v.pytype = "str"      -> v.s # ""
           [] v.pytype = "list"     -> v.items # <<>>

\* dict.get(key, default)
Get(d, key, default) == IF key \in DOMAIN d THEN d[key] ELSE default

(***************************************************************************)
(* Strings                                                                 *)
(***************************************************************************)
\* the en-dash character U+2013, written by its code point
EnDash == "u2013"

GenreSep == ", "

UnknownStr == <<"U", "n", "k", "n", "o", "w", "n">>

Digits == {"0", "1", "2", "3", "4", "5", "6", "7", "8", "9"}

\* str.lower() on the characters titles are made of
LowerChar(c) ==
    CASE c = "A" -> "a"
      [] c = "B" -> "b"
      [] OTHER   -> c

Lower(s) == [k \in 1..Len(s) |-> LowerChar(s[k])]

RECURSIVE LStrip(_)
LStrip(s) == IF s # <<>> /\ Head(s) = " " THEN LStrip(Tail(s)) ELSE s

RECURSIVE RStrip(_)
RStrip(s) ==
    IF s # <<>> /\ s[Len(s)] = " " THEN RStrip(SubSeq(s, 1, Len(s) - 1)) ELSE s

\* str.strip()
Strip(s) == RStrip(LStrip(s))

\* s.replace(ch, '')
ReplaceWithEmpty(s, ch) == SelectSeq(s, LAMBDA c : c # ch)

\* s.split(ch)[0]: the part of s before the first ch (all of s if none)
RECURSIVE SplitFirst(_, _)
SplitFirst(s, ch) ==
    IF s = <<>> \/ Head(s) = ch THEN <<>>
    ELSE <<Head(s)>> \o SplitFirst(Tail(s), ch)

\* s.split(', ') of a non-empty genre string: the pieces between separator
\* tokens; a piece is its name token, or "" when nothing stands between
\* two separators
RECURSIVE SplitGenre(_, _)
SplitGenre(s, piece) ==
    IF s = <<>> THEN <<piece>>
    ELSE IF Head(s) = GenreSep THEN <<piece>> \o SplitGenre(Tail(s), "")
    ELSE SplitGenre(Tail(s), Head(s))

\* ', '.join(list)
RECURSIVE Join(_)
Join(l) ==
    IF l = <<>> THEN <<>>
    ELSE IF Len(l) = 1 THEN <<l[1]>>
    ELSE <<l[1], GenreSep>> \o Join(Tail(l))

(***************************************************************************)
(* config.py                                                               *)
(***************************************************************************)
PlaceholderKey == "4bcd5aba"

DEFAULT_GENRES ==
    <<"Action", "Adventure", "Animation", "Comedy", "Crime",
      "Documentary", "Drama", "Family", "Fantasy", "History",
      "Horror", "Music", "Mystery", "Romance", "Science Fiction",
      "TV Movie", "Thriller", "War", "Western">>

Taxonomy == {DEFAULT_GENRES[k] : k \in 1..Len(DEFAULT_GENRES)}

(***************************************************************************)
(* The input titles and the provider                                       *)
(***************************************************************************)
\* raw titles a caller passes: two spellings of one title (one of them with
\* surrounding blanks) and a second title
InputTitles == {<<"A">>, <<" ", "a", " ">>, <<"b">>}

\* titles as get_movie_data receives them
Titles == {Strip(t) : t \in InputTitles}

\* bodies the provider answers a match with (Response == 'True'); the
\* provider lists a title in lower case
MatchPayloads(movie_title) ==
    { [Response |-> "True", Title |-> Lower(movie_title),
       Genre |-> <<"Drama", GenreSep, "Bogus">>,
       Year |-> <<"2", "0", "1", "9", EnDash, "2", "0", "2", "1">>,
       Plot |-> "plot", imdbRating |-> Str("8.7")],
      [Response |-> "True", Title |-> Lower(movie_title),
       Genre |-> <<"Action">>, Year |-> <<"1", "9", "9", "9">>,
       Plot |-> "plot"],
      [Response |-> "True", Genre |-> <<>>,
       Year |-> <<"2", "0", "1", "9", EnDash>>],
      [Response |-> "True"] }

NoMatchBody == [Response |-> "False", Error |-> "Movie not found!"]

\* what requests.get / raise_for_status / response.json() can produce
NetworkOutcomes(movie_title) ==
    { [kind |-> "timeout"], [kind |-> "connection_error"],
      [kind |-> "http_error"], [kind |-> "not_json"] }
    \cup { [kind |-> "json", data |-> d] :
             d \in MatchPayloads(movie_title)
                   \cup {NoMatchBody, PyList(<<>>)} }

(***************************************************************************)
(* MovieAPIHandler: the cache                                              *)
(***************************************************************************)
AbsentFile == [state |-> "absent"]

\* the file exists but open() raises
UnreadableFile == [state |-> "unreadable"]

\* the file exists, json.load raises
GarbageFile == [state |-> "file", valid |-> FALSE]

JsonFile(v) == [state |-> "file", valid |-> TRUE, json |-> v]

\* variant: the file is named after the title as typed
GetCachePathCaseSensitive(movie_title) == movie_title

\* md5 of the lowered title names the file; the path is modelled by the
\* lowered title itself (md5 taken as injective on the titles considered)
GetCachePath(movie_title) == Lower(movie_title)

CachePaths == {GetCachePath(t) : t \in Titles}

LoadFromCache(c, movie_title) ==
    LET f == c[GetCachePath(movie_title)]
    IN  IF f.state = "file" /\ f.valid THEN f.json ELSE None

\* how the write of _save_to_cache can end: written, open() failed (file
\* untouched), or json.dump failed after open() truncated the file
WriteOutcomes == {"ok", "open_failed", "truncated"}

SaveToCache(c, movie_title, data, w) ==
    CASE w = "ok"          -> [c EXCEPT ![GetCachePath(movie_title)] = JsonFile(data)]
      [] w = "open_failed" -> c
      [] w = "truncated"   -> [c EXCEPT ![GetCachePath(movie_title)] = GarbageFile]

\* files a cache directory can hold before the handler runs
InitialFiles ==
    { AbsentFile, UnreadableFile, GarbageFile,
      JsonFile([tmdb |-> EmptyDict]),
      JsonFile([omdb |-> EmptyDict]),
      JsonFile([omdb |-> Str("x")]),
      JsonFile(PyList(<<"omdb">>)),
      JsonFile([omdb |-> [Response |-> "True", Title |-> <<"a">>,
                          Genre |-> <<"Comedy">>,
                          Year |-> <<"2", "0", "0", "1">>,
                          Plot |-> "plot", imdbRating |-> Str("6.1")]]) }

(***************************************************************************)
(* MovieAPIHandler.search_movie_omdb                                       *)
(***************************************************************************)
\* Python's `key in container`; strings are atomic here, so only the
\* occurrence of the whole string is modelled
Contains(v, key) ==
    IF IsDict(v) THEN key \in DOMAIN v
    ELSE CASE v.pytype = "str"  -> v.s = key
           [] v.pytype = "list" -> \E k \in 1..Len(v.items) : v.items[k] = key
           [] OTHER             -> FALSE

\* variant: only the empty credential is rejected
CredentialUsableNonEmpty(key) == key # ""

CredentialUsable(key) == key # "" /\ key # PlaceholderKey

\* result of the call: exc is the exception that leaves it ("" if none),
\* ret the value returned, net the HTTP requests issued, cache the cache
\* directory afterwards
Outcome(exc, ret, net, c) ==
    [exc |-> exc, ret |-> ret, net |-> net, cache |-> c]

\* variant: the body is cached before its Response field is tested
RequestSavingAnyBody(c, movie_title, o, w) ==
    IF o.kind # "json" THEN Outcome("", None, 1, c)
    ELSE IF ~IsDict(o.data) THEN Outcome("", None, 1, c)
    ELSE Outcome("",
                 IF "Response" \in DOMAIN o.data /\ o.data["Response"] = "True"
                 THEN o.data ELSE None,
                 1, SaveToCache(c, movie_title, [omdb |-> o.data], w))

\* the try block: request, raise_for_status, json(), the Response test
Request(c, movie_title, o, w) ==
    IF o.kind # "json" THEN Outcome("", None, 1, c)
    ELSE IF ~IsDict(o.data) THEN Outcome("", None, 1, c)
    ELSE IF "Response" \in DOMAIN o.data /\ o.data["Response"] = "True"
         THEN Outcome("", o.data, 1,
                      SaveToCache(c, movie_title, [omdb |-> o.data], w))
         ELSE Outcome("", None, 1, c)

SearchMovieOmdb(key, c, movie_title) ==
    IF ~CredentialUsable(key) THEN {Outcome("", None, 0, c)}
    ELSE LET cached_data == LoadFromCache(c, movie_title)
         IN  IF Truthy(cached_data) /\ Contains(cached_data, "omdb")
             THEN IF IsDict(cached_data)
                  THEN {Outcome("", cached_data["omdb"], 0, c)}
                  ELSE {Outcome("TypeError", None, 0, c)}
             ELSE {Request(c, movie_title, o, w) :
                     o \in NetworkOutcomes(movie_title), w \in WriteOutcomes}

(***************************************************************************)
(* MovieAPIHandler.get_movie_data                                          *)
(***************************************************************************)
\* variant: a payload without genre data is given the genre 'Unknown'
GenresOfUnknownWhenEmpty(omdb_data) ==
    IF "Genre" \in DOMAIN omdb_data /\ omdb_data["Genre"] # <<>>
    THEN SplitGenre(omdb_data["Genre"], "")
    ELSE <<"Unknown">>

GenresOf(omdb_data) ==
    IF "Genre" \in DOMAIN omdb_data /\ omdb_data["Genre"] # <<>>
    THEN SplitGenre(omdb_data["Genre"], "")
    ELSE <<>>

YearOf(omdb_data) ==
    SplitFirst(ReplaceWithEmpty(Get(omdb_data, "Year", UnknownStr), EnDash),
               EnDash)

FoundRecord(omdb_data, movie_title) ==
    [omdb     |-> omdb_data,
     title    |-> Get(omdb_data, "Title", movie_title),
     genres   |-> GenresOf(omdb_data),
     year     |-> YearOf(omdb_data),
     overview |-> Get(omdb_data, "Plot", ""),
     rating   |-> Get(omdb_data, "imdbRating", None),
     source   |-> "OMDb"]

DefaultRecord(movie_title) ==
    [title    |-> movie_title,
     genres   |-> <<"Unknown">>,
     year     |-> UnknownStr,
     overview |-> "No information available",
     rating   |-> None,
     source   |-> "Not Found"]

GetMovieDataFrom(s, movie_title) ==
    IF s.exc # "" THEN s
    ELSE IF ~Truthy(s.ret) THEN [s EXCEPT !.ret = DefaultRecord(movie_title)]
    ELSE IF ~IsDict(s.ret) THEN [s EXCEPT !.exc = "AttributeError", !.ret = None]
    ELSE [s EXCEPT !.ret = FoundRecord(s.ret, movie_title)]

GetMovieData(key, c, movie_title) ==
    {GetMovieDataFrom(s, movie_title) : s \in SearchMovieOmdb(key, c, movie_title)}

(***************************************************************************)
(* MovieGenreClassifier.classify_movies                                    *)
(***************************************************************************)
BucketKeys == Taxonomy \cup {"Unknown"}

\* {genre: [] for genre in DEFAULT_GENRES} plus the 'Unknown' bucket
EmptyBuckets == [g \in BucketKeys |-> <<>>]

\* variant: the list of the earlier run is kept
ProcessedAtStartKept(previous) == previous

\* self.processed_movies = [] at the start of a run
ProcessedAtStart(previous) == <<>>

\* the bucket the loop over a record's genres appends to
BucketFor(cm, genre) == IF genre \in DOMAIN cm THEN genre ELSE "Unknown"

\* variant: the record is filed under its first genre only
FileUnderFirstGenre(cm, movie_data, genres) ==
    IF genres = <<>> THEN cm
    ELSE [cm EXCEPT ![BucketFor(cm, Head(genres))] = Append(@, movie_data)]

RECURSIVE FileUnderGenres(_, _, _)
FileUnderGenres(cm, movie_data, genres) ==
    IF genres = <<>> THEN cm
    ELSE LET b == BucketFor(cm, Head(genres))
         IN  FileUnderGenres([cm EXCEPT ![b] = Append(@, movie_data)],
                             movie_data, Tail(genres))

\* "Add to genre categories"
AddToBuckets(cm, movie_data) ==
    LET genres == Get(movie_data, "genres", <<>>)
    IN  IF genres = <<>>
        THEN [cm EXCEPT !["Unknown"] = Append(@, movie_data)]
        ELSE FileUnderGenres(cm, movie_data, genres)

\* what the caller sees of one get_movie_data call: the title passed, the
\* exception that left it ("" if none), the record returned and the number
\* of HTTP requests it issued
Fetch(movie_title, o) ==
    [title |-> movie_title, exc |-> o.exc, ret |-> o.ret, net |-> o.net]

NoCall == [op |-> "none"]

TitleLists == UNION {[1..n -> InputTitles] : n \in 0..MaxTitles}

\* the call of classify_movies up to the loop
ClassifyStart(titles) ==
    /\ pc # "running"
    /\ movie_titles' = titles
    /\ classified_movies' = EmptyBuckets
    /\ processed_movies' = ProcessedAtStart(processed_movies)
    /\ pos' = 0
    /\ pc' = IF titles = <<>> THEN "done" ELSE "running"
    /\ returned' = NoCall
    /\ UNCHANGED <<omdb_api_key, cache, fetched>>

\* one iteration of the loop; an exception of get_movie_data leaves the call
ClassifyStep ==
    /\ pc = "running"
    /\ LET title == Strip(movie_titles[pos + 1])
       IN  \E o \in GetMovieData(omdb_api_key, cache, title) :
             /\ cache' = o.cache
             /\ fetched' = <<Fetch(title, o)>>
             /\ IF o.exc # ""
                THEN /\ pc' = "raised"
                     /\ UNCHANGED <<processed_movies, classified_movies, pos>>
                ELSE /\ processed_movies' = Append(processed_movies, o.ret)
                     /\ classified_movies' = AddToBuckets(classified_movies, o.ret)
                     /\ pos' = pos + 1
                     /\ pc' = IF pos + 1 = Len(movie_titles)
                              THEN "done" ELSE "running"
    /\ UNCHANGED <<omdb_api_key, movie_titles, returned>>

(***************************************************************************)
(* MovieGenreClassifier.get_statistics                                     *)
(***************************************************************************)
RECURSIVE Occurrences(_, _)
Occurrences(l, x) ==
    IF l = <<>> THEN 0
    ELSE (IF Head(l) = x THEN 1 ELSE 0) + Occurrences(Tail(l), x)

RECURSIVE GenreOccurrences(_, _)
GenreOccurrences(movies, genre) ==
    IF movies = <<>> THEN 0
    ELSE Occurrences(Get(Head(movies), "genres", <<>>), genre)
         + GenreOccurrences(Tail(movies), genre)

GenreCounts(movies) ==
    LET seen == UNION { {m.genres[k] : k \in 1..Len(m.genres)} :
                        m \in {movies[j] : j \in 1..Len(movies)} }
    IN  [g \in seen |-> GenreOccurrences(movies, g)]

\* found / total * 100 as the fraction num/den; the literal 0 is 0/1
Percentage(found, total) ==
    IF total > 0 THEN [num |-> found * 100, den |-> total]
    ELSE [num |-> 0, den |-> 1]

Statistics(movies) ==
    IF movies = <<>> THEN EmptyDict
    ELSE LET total_movies == Len(movies)
             found_movies ==
                 Len(SelectSeq(movies, LAMBDA m : m.source # "Not Found"))
             unknown_genres ==
                 Len(SelectSeq(movies, LAMBDA m : m.genres = <<>>
                                                  \/ m.genres = <<"Unknown">>))
         IN  [total_movies     |-> total_movies,
              found_movies     |-> found_movies,
              not_found_movies |-> total_movies - found_movies,
              unknown_genres   |-> unknown_genres,
              genre_counts     |-> GenreCounts(movies),
              success_rate     |-> Percentage(found_movies, total_movies)]

GetStatistics ==
    /\ pc # "running"
    /\ returned' = [op |-> "get_statistics", value |-> Statistics(processed_movies)]
    /\ UNCHANGED <<omdb_api_key, cache, movie_titles, pos, pc,
                   processed_movies, classified_movies, fetched>>

(***************************************************************************)
(* MovieGenreClassifier.export_to_dataframe                                *)
(***************************************************************************)
Row(movie) ==
    [Title    |-> Get(movie, "title", <<>>),
     Year     |-> Get(movie, "year", UnknownStr),
     Genres   |-> Join(Get(movie, "genres", <<>>)),
     Rating   |-> Get(movie, "rating", Str("N/A")),
     Overview |-> Get(movie, "overview", ""),
     Source   |-> Get(movie, "source", "Unknown")]

Rows(movies) == [k \in 1..Len(movies) |-> Row(movies[k])]

ExportToDataframe ==
    /\ pc # "running"
    /\ returned' = [op |-> "export_to_dataframe", value |-> Rows(processed_movies)]
    /\ UNCHANGED <<omdb_api_key, cache, movie_titles, pos, pc,
                   processed_movies, classified_movies, fetched>>

(***************************************************************************)
(* The system                                                              *)
(***************************************************************************)
\* OMDB_API_KEY as the environment can set it: empty, the default of
\* config.py, or a key of the user's own
ApiKeys == {"", PlaceholderKey, "k3y"}

Init ==
    /\ omdb_api_key \in ApiKeys
    /\ cache \in [CachePaths -> InitialFiles]
    /\ movie_titles = <<>>
    /\ pos = 0
    /\ pc = "idle"
    /\ processed_movies = <<>>
    /\ classified_movies = EmptyBuckets
    /\ returned = NoCall
    /\ fetched = <<>>

Next ==
    \/ \E titles \in TitleLists : ClassifyStart(titles)
    \/ ClassifyStep
    \/ GetStatistics
    \/ ExportToDataframe

Spec == Init /\ [][Next]_vars

TypeOK ==
    /\ omdb_api_key \in ApiKeys
    /\ pc \in {"idle", "running", "done", "raised"}
    /\ pos \in 0..Len(movie_titles)
    /\ movie_titles \in TitleLists
    /\ Len(fetched) <= 1

(***************************************************************************)
(* Properties                                                              *)
(***************************************************************************)
Range(l) == {l[k] : k \in 1..Len(l)}

\* the credential is missing/empty or is the placeholder value
NoCredential == omdb_api_key = "" \/ omdb_api_key = "4bcd5aba"

\* the records a caller holds: the processed list, the buckets, the record
\* of the last get_movie_data call
BucketRecords == UNION {Range(classified_movies[g]) : g \in BucketKeys}

ReturnedRecords ==
    Range(processed_movies) \cup BucketRecords
    \cup {f.ret : f \in {g \in Range(fetched) : g.exc = ""}}

\* C1: get_movie_data never fails outward: whatever the credential, the
\* cache entry and the network outcome, the call raises no exception and
\* returns a record; a record that is not a found one is the default
\* "not found" record of the title passed.
C1NeverFailsOutward ==
    \A f \in Range(fetched) :
        /\ f.exc = ""
        /\ f.ret.source \in {"OMDb", "Not Found"}
        /\ f.ret.source = "Not Found" => f.ret = DefaultRecord(f.title)

\* two records that differ at most in the title field
SameButTitle(r1, r2) == [r1 EXCEPT !.title = <<>>] = [r2 EXCEPT !.title = <<>>]

\* a step that is a get_movie_data call following an earlier one for the
\* same normalized title, under a usable credential
SecondFetchOfTitle ==
    /\ pc = "running"
    /\ fetched # <<>>
    /\ fetched' # <<>>
    /\ ~NoCredential
    /\ Lower(fetched[1].title) = Lower(fetched'[1].title)

\* C2 (as stated): with a usable credential, two successive fetches of the
\* same normalized title issue at most one network call in total and the
\* second returns a record equivalent to the first, served from the cache.
C2CacheRoundTrip ==
    [][SecondFetchOfTitle =>
          /\ fetched[1].net + fetched'[1].net <= 1
          /\ fetched'[1].net = 0
          /\ fetched[1].exc = "" /\ fetched'[1].exc = ""
          /\ SameButTitle(fetched[1].ret, fetched'[1].ret)]_vars

\* the first of the two fetches returned a found record and the cache entry
\* of its title holds that record's payload under the provider key
FirstFetchCached ==
    /\ fetched[1].exc = ""
    /\ fetched[1].ret.source = "OMDb"
    /\ cache[GetCachePath(fetched[1].title)]
         = JsonFile([omdb |-> fetched[1].ret.omdb])

\* C2 (amended): with a usable credential, when a fetch returns a found
\* record and the cache entry of its title holds that record's payload (the
\* match was written, or the record came from the cache), the next fetch of
\* a title equal after lowercasing issues no network call (so the two issue
\* at most one) and returns the record mapped from the same payload: equal
\* to the first in every field but the title, which is the payload's Title
\* or, failing that, the title passed to that call.
C2CacheRoundTripAfterMatch ==
    [][(SecondFetchOfTitle /\ FirstFetchCached) =>
          /\ fetched[1].net + fetched'[1].net <= 1
          /\ fetched'[1].net = 0
          /\ fetched'[1].exc = ""
          /\ SameButTitle(fetched[1].ret, fetched'[1].ret)
          /\ fetched'[1].ret
               = FoundRecord(fetched[1].ret.omdb, fetched'[1].title)
          /\ cache' = cache]_vars

\* C2 witness: in one run, two successive titles that differ but are equal
\* after lowercasing; the first got a match only the network gives, the
\* second was served the same payload without a network call.
C2Witness ==
    /\ ~NoCredential
    /\ pos >= 2
    /\ Len(processed_movies) = pos
    /\ fetched # <<>>
    /\ Strip(movie_titles[pos - 1]) # Strip(movie_titles[pos])
    /\ Lower(Strip(movie_titles[pos - 1])) = Lower(Strip(movie_titles[pos]))
    /\ fetched[1].title = Strip(movie_titles[pos])
    /\ fetched[1].net = 0
    /\ processed_movies[pos - 1].source = "OMDb"
    /\ processed_movies[pos - 1].omdb
         \in MatchPayloads(Strip(movie_titles[pos - 1]))
    /\ processed_movies[pos].omdb = processed_movies[pos - 1].omdb

\* the record of title number k of the run is what get_movie_data builds
\* for that title, trimmed
RecordOfTitle(rec, k) ==
    LET title == Strip(movie_titles[k])
    IN  IF rec.source = "Not Found" THEN rec = DefaultRecord(title)
        ELSE rec = FoundRecord(rec.omdb, title)

\* C3: when classify_movies is over, processed_movies has one record per
\* input title, in input order, record i being the lookup result of the
\* trimmed title i; no title stops the processing of the titles after it.
C3OneRecordPerTitle ==
    pc \in {"done", "raised"} =>
        /\ Len(processed_movies) = Len(movie_titles)
        /\ \A k \in 1..Len(processed_movies) :
               RecordOfTitle(processed_movies[k], k)

\* C4 (as stated): every record returned by the Lookup Client, in
\* processed_movies and in the buckets has a non-empty genre list.
C4GenresNeverEmpty ==
    \A rec \in ReturnedRecords : rec.genres # <<>>

\* the payload of a found record has no Genre field or an empty one
NoGenreData(rec) ==
    /\ rec.source = "OMDb"
    /\ "Genre" \notin DOMAIN rec.omdb \/ rec.omdb["Genre"] = <<>>

\* C4 (amended): a record's genre list is empty exactly when it is a found
\* movie whose provider payload has no genre field or an empty genre
\* string: such a record has genres == [], not ["Unknown"]; every other
\* record has a non-empty genre list, the NotFound record ["Unknown"].
C4GenresEmptyOnlyWithoutGenreData ==
    \A rec \in ReturnedRecords :
        /\ rec.genres = <<>> <=> NoGenreData(rec)
        /\ rec.source = "Not Found" => rec.genres = <<"Unknown">>

\* C4 witness: a finished run with a found record without genre data in
\* processed_movies and in the 'Unknown' bucket, and a NotFound record.
C4Witness ==
    /\ pc = "done"
    /\ \E rec \in Range(processed_movies) :
          NoGenreData(rec) /\ rec \in Range(classified_movies["Unknown"])
    /\ \E rec \in Range(processed_movies) : rec.source = "Not Found"

\* C5: with no processed record (before any run, after a run on the empty
\* list), get_statistics returns a mapping with total_movies 0 and
\* success_rate exactly 0.
C5EmptySuccessRateIsZero ==
    (returned.op = "get_statistics" /\ processed_movies = <<>>) =>
        /\ "success_rate" \in DOMAIN returned.value
        /\ returned.value["success_rate"] = Percentage(0, 0)
        /\ "total_movies" \in DOMAIN returned.value
        /\ returned.value["total_movies"] = 0

\* C6: with a missing/empty credential or the placeholder value, no fetch
\* attempts a network call and every record returned is the default
\* "not found" record, also for a title that has a valid cache entry; the
\* cache is left as it was.
C6NoCallWithoutCredential ==
    NoCredential =>
        /\ \A f \in Range(fetched) :
              f.net = 0 /\ f.exc = "" /\ f.ret = DefaultRecord(f.title)
        /\ \A rec \in ReturnedRecords : rec.source = "Not Found"
        /\ \A k \in 1..Len(processed_movies) :
              processed_movies[k] = DefaultRecord(Strip(movie_titles[k]))
        /\ cache \in [CachePaths -> InitialFiles]

\* a cache entry search_movie_omdb would serve a found record from
ValidEntry(f) ==
    /\ f.state = "file" /\ f.valid
    /\ IsDict(f.json) /\ "omdb" \in DOMAIN f.json
    /\ IsDict(f.json["omdb"]) /\ Truthy(f.json["omdb"])

\* C6 witness: a finished run of two titles under the placeholder or the
\* empty credential, the last title having a valid cache entry.
C6Witness ==
    /\ NoCredential
    /\ pc = "done"
    /\ Len(processed_movies) = 2
    /\ fetched # <<>>
    /\ ValidEntry(cache[GetCachePath(fetched[1].title)])

\* the bucket the rule assigns to a genre
Target(genre) == IF genre \in Taxonomy THEN genre ELSE "Unknown"

InBucket(rec, b) == rec \in Range(classified_movies[b])

\* C7 (as stated): after classify_movies, a processed record is in bucket b
\* exactly when one of its genres is the taxonomy key b, or b is 'Unknown'
\* and one of its genres is no taxonomy key; nothing else is in a bucket.
C7BucketingRule ==
    pc = "done" =>
        /\ \A rec \in Range(processed_movies) : \A b \in BucketKeys :
              InBucket(rec, b) <=> \E g \in Range(rec.genres) : Target(g) = b
        /\ BucketRecords \subseteq Range(processed_movies)

\* C7 (amended): as C7, and a processed record whose genre list is empty
\* is in the 'Unknown' bucket and in no other.
C7BucketingRuleWithEmpty ==
    pc = "done" =>
        /\ \A rec \in Range(processed_movies) : \A b \in BucketKeys :
              InBucket(rec, b) <=>
                  \/ \E g \in Range(rec.genres) : Target(g) = b
                  \/ rec.genres = <<>> /\ b = "Unknown"
        /\ \A rec \in Range(processed_movies) :
              rec.source = "Not Found" =>
                  \A b \in BucketKeys : InBucket(rec, b) <=> b = "Unknown"
        /\ BucketRecords \subseteq Range(processed_movies)

\* C7 witness: a finished run with a record of genres Drama and Bogus in
\* the buckets 'Drama' and 'Unknown', and a record with no genre in
\* 'Unknown'.
C7Witness ==
    /\ pc = "done"
    /\ \E rec \in Range(processed_movies) :
          /\ rec.genres = <<"Drama", "Bogus">>
          /\ InBucket(rec, "Drama") /\ InBucket(rec, "Unknown")
    /\ \E rec \in Range(processed_movies) :
          rec.genres = <<>> /\ InBucket(rec, "Unknown")

\* C8: the exported row of a processed record has the record's rating when
\* there is one and the literal "N/A" when the rating is absent, as it is
\* for every NotFound record.
C8RatingOrNA ==
    returned.op = "export_to_dataframe" =>
        /\ Len(returned.value) = Len(processed_movies)
        /\ \A k \in 1..Len(processed_movies) :
              returned.value[k].Rating =
                  IF processed_movies[k].rating # None
                  THEN processed_movies[k].rating ELSE Str("N/A")

FourDigits(y) == Len(y) = 4 /\ \A k \in 1..4 : y[k] \in Digits

\* C9: the year of a found record is the first segment of the provider's
\* year string, the part before the first en-dash: four digits, or
\* "Unknown" when the provider gives no year.
C9YearFirstSegment ==
    \A rec \in ReturnedRecords :
        rec.source = "OMDb" =>
            /\ rec.year = SplitFirst(Get(rec.omdb, "Year", UnknownStr), EnDash)
            /\ FourDigits(rec.year) \/ rec.year = UnknownStr

\* C10: processed_movies and the buckets hold the records of the titles of
\* the most recent run and nothing else: as many records as titles handled
\* so far in this run, record k built for title k of this run, every bucket
\* entry one of these records, and the statistics and rows returned since
\* the run computed from them.
C10FreshResultPerRun ==
    /\ Len(processed_movies) = pos
    /\ pc = "done" => pos = Len(movie_titles)
    /\ \A k \in 1..Len(processed_movies) : RecordOfTitle(processed_movies[k], k)
    /\ BucketRecords \subseteq Range(processed_movies)
    /\ processed_movies = <<>> => classified_movies = EmptyBuckets
    /\ returned.op = "get_statistics" /\ processed_movies # <<>> =>
          returned.value["total_movies"] = pos
    /\ returned.op = "export_to_dataframe" => Len(returned.value) = pos

\* C10 witness: a finished run on the one title "b", not found, while the
\* cache holds for the other title a match that only a fetch of an earlier
\* run can have written.
C10Witness ==
    /\ pc = "done"
    /\ movie_titles = << <<"b">> >>
    /\ processed_movies = <<DefaultRecord(<<"b">>)>>
    /\ classified_movies = [EmptyBuckets EXCEPT !["Unknown"] = processed_movies]
    /\ \E d \in MatchPayloads(<<"a">>) :
          cache[GetCachePath(<<"a">>)] = JsonFile([omdb |-> d])

\* a step that is a call of get_movie_data
FetchStep == pc = "running" /\ fetched' # <<>>

\* the call of the step returned the default "not found" record
DefaultReturned ==
    /\ fetched'[1].exc = ""
    /\ fetched'[1].ret = DefaultRecord(fetched'[1].title)

\* a cache entry that holds, under the provider key, a payload whose
\* Response field is the success marker
HoldsMatch(f) ==
    /\ f.state = "file" /\ f.valid
    /\ IsDict(f.json) /\ DOMAIN f.json = {"omdb"}
    /\ IsDict(f.json["omdb"])
    /\ "Response" \in DOMAIN f.json["omdb"]
    /\ f.json["omdb"]["Response"] = "True"

\* C11 (as stated): a fetch that returns the default "not found" record
\* leaves every cache entry unchanged, and every entry the Lookup Client
\* writes holds a payload whose status field is the success marker,
\* wrapped under the provider key.
C11CacheWrittenOnlyOnMatch ==
    [][FetchStep =>
          /\ DefaultReturned => cache' = cache
          /\ \A p \in CachePaths :
                cache'[p] # cache[p] => HoldsMatch(cache'[p])]_vars

\* C11 (amended): only a fetch touches the cache; a fetch that returns the
\* default "not found" record, or raises, leaves every cache entry
\* unchanged; an entry changes only when a network call got a successful
\* match, it is then the entry of the title fetched, and it holds that
\* match (status field the success marker) under the provider key, or, when
\* the write failed after the file was opened, unparseable text.
C11CacheWrittenOnlyOnMatchOrTruncated ==
    [][/\ ~FetchStep => cache' = cache
       /\ FetchStep =>
             /\ DefaultReturned => cache' = cache
             /\ fetched'[1].exc # "" => cache' = cache
             /\ \A p \in CachePaths :
                   cache'[p] # cache[p] =>
                       /\ p = GetCachePath(fetched'[1].title)
                       /\ fetched'[1].exc = ""
                       /\ fetched'[1].net = 1
                       /\ fetched'[1].ret.source = "OMDb"
                       /\ \/ /\ cache'[p] = JsonFile([omdb |-> fetched'[1].ret.omdb])
                             /\ HoldsMatch(cache'[p])
                          \/ cache'[p] = GarbageFile]_vars

\* C11 witness: a finished run of two titles with different cache entries;
\* the first got a match from the network and its entry holds it, the
\* second got no record from a network call and its entry is a file the
\* directory held from the start.
C11Witness ==
    /\ pc = "done"
    /\ pos = 2
    /\ Len(processed_movies) = 2
    /\ GetCachePath(Strip(movie_titles[1])) # GetCachePath(Strip(movie_titles[2]))
    /\ processed_movies[1].source = "OMDb"
    /\ processed_movies[1].omdb \in MatchPayloads(Strip(movie_titles[1]))
    /\ cache[GetCachePath(Strip(movie_titles[1]))]
         = JsonFile([omdb |-> processed_movies[1].omdb])
    /\ HoldsMatch(cache[GetCachePath(Strip(movie_titles[1]))])
    /\ fetched # <<>>
    /\ fetched[1].net = 1
    /\ fetched[1].ret = DefaultRecord(Strip(movie_titles[2]))
    /\ cache[GetCachePath(Strip(movie_titles[2]))] \in InitialFiles

====
